---- MODULE Spec2Model ----
(***************************************************************************)
(* RBAC manifest generation: pkg/generate/rbac (Generate and its two       *)
(* manifest builders) and the driver cmd/rbac/main.go.                     *)
(*                                                                         *)
(* A Go string is a sequence of tokens (a name "m" is <<"m">>, the suffix  *)
(* "-role" one more token), so concatenation is \o and an empty name is    *)
(* <<>>.  A rendered manifest is the sequence of the YAML document's       *)
(* scalar lines, in the order ghodss/yaml emits them.                      *)
(***************************************************************************)
EXTENDS Integers, Sequences, FiniteSets, TLC

VARIABLES serialized, pc, opts, rules, roleManifest, roleBindingManifest,
          err, fs, exitStatus, stdout, fsAtStart, calls, touched, lastWriter

vars == <<serialized, pc, opts, rules, roleManifest, roleBindingManifest,
          err, fs, exitStatus, stdout, fsAtStart, calls, touched, lastWriter>>

(***************************************************************************)
(* Bounds                                                                  *)
(***************************************************************************)
MaxRules == 2

\* The invocations of the tool: one process each, every one executes main once.
Procs == {1, 2}

(***************************************************************************)
(* The environment: directories that exist, and the values the flags take  *)
(***************************************************************************)
ExistingDirs == {"./pkg", "./config"}
InputDirs == {"./pkg", "./nodir"}
OutputDirs == {"./config", "./nodir"}
Names == {<<>>, <<"manager">>, <<"other">>}

\* No flag sets Labels: the driver always leaves the map nil.
NoLabels == [k \in {} |-> <<>>]
LabelKeyOrder == <<"app", "tier">>

\* The options registerFlags can produce.
ManifestOptions ==
    [InputDir : InputDirs, OutputDir : OutputDirs, Name : Names, Labels : {NoLabels}]

\* The flags' defaults.
DefaultOptions ==
    [InputDir |-> "./pkg", OutputDir |-> "./config", Name |-> <<"manager">>,
     Labels |-> NoLabels]

(***************************************************************************)
(* rbacv1.PolicyRule values the Rule Source hands over                     *)
(***************************************************************************)
PolicyRule(groups, resources, verbs) ==
    [APIGroups |-> groups, Resources |-> resources, ResourceNames |-> <<>>,
     NonResourceURLs |-> <<>>, Verbs |-> verbs]

PodsGet == PolicyRule(<<"">>, <<"pods">>, <<"get">>)
PodsList == PolicyRule(<<"">>, <<"pods">>, <<"list">>)
DeploymentsGetList == PolicyRule(<<"apps">>, <<"deployments">>, <<"get", "list">>)

RuleUniverse == {PodsGet, PodsList, DeploymentsGetList}

\* The scans considered: at most MaxRules annotations, none of them repeated.
RuleSeqs ==
    {rs \in UNION {[1..n -> RuleUniverse] : n \in 0..MaxRules} :
        \A i, j \in 1..Len(rs) : i # j => rs[i] # rs[j]}

\* The inputs of the invocations when callers do not serialize their invocations.
ConcurrentOptions ==
    {x \in ManifestOptions : /\ x.InputDir = "./pkg"
                             /\ x.OutputDir = "./config"
                             /\ x.Name # <<>>}
ConcurrentRuleSeqs == {<<PodsGet>>, <<>>}

(***************************************************************************)
(* Files                                                                   *)
(***************************************************************************)
RoleFile == "rbac_role.yaml"
RoleBindingFile == "rbac_role_binding.yaml"
FileNames == {RoleFile, RoleBindingFile}

Join(dir, name) == <<dir, name>>

Paths == {Join(d, n) : d \in ExistingDirs \cap OutputDirs, n \in FileNames}

NoFile == [exists |-> FALSE, data |-> <<>>]

\* os.Stat: nil exactly when the path exists.
Stat(path) == IF path \in ExistingDirs THEN <<>> ELSE <<"no such file or directory">>

Nil == <<>>

(***************************************************************************)
(* yaml.Marshal (ghodss/yaml): the object goes through JSON, so every      *)
(* mapping is emitted with its keys in alphabetical order, omitempty       *)
(* fields are left out, and a list is emitted in the order of the slice.   *)
(***************************************************************************)
Line(key, idx, val) == [key |-> key, idx |-> idx, val |-> val]

RECURSIVE Flatten(_)
Flatten(ss) == IF ss = <<>> THEN <<>> ELSE Head(ss) \o Flatten(Tail(ss))

LabelLines(labels) ==
    LET ks == SelectSeq(LabelKeyOrder, LAMBDA k : k \in DOMAIN labels)
    IN  [i \in 1..Len(ks) |-> Line("metadata.labels", <<i>>, <<ks[i]>> \o labels[ks[i]])]

MetaLines(typeMeta, objectMeta) ==
    <<Line("apiVersion", <<>>, <<typeMeta.APIVersion>>),
      Line("kind", <<>>, <<typeMeta.Kind>>),
      Line("metadata.creationTimestamp", <<>>, <<"null">>)>>
    \o LabelLines(objectMeta.Labels)
    \o <<Line("metadata.name", <<>>, objectMeta.Name)>>

ListLines(key, i, list) ==
    [j \in 1..Len(list) |-> Line(key, <<i, j>>, <<list[j]>>)]

RuleLines(i, r) ==
    ListLines("rules.apiGroups", i, r.APIGroups)
    \o ListLines("rules.nonResourceURLs", i, r.NonResourceURLs)
    \o ListLines("rules.resourceNames", i, r.ResourceNames)
    \o ListLines("rules.resources", i, r.Resources)
    \o (IF r.Verbs = <<>> THEN <<Line("rules.verbs", <<i>>, <<"null">>)>>
        ELSE ListLines("rules.verbs", i, r.Verbs))

MarshalClusterRole(role) ==
    MetaLines(role.TypeMeta, role.ObjectMeta)
    \o Flatten([i \in 1..Len(role.Rules) |-> RuleLines(i, role.Rules[i])])

SubjectLines(i, s) ==
    <<Line("subjects.kind", <<i>>, <<s.Kind>>),
      Line("subjects.name", <<i>>, <<s.Name>>),
      Line("subjects.namespace", <<i>>, s.Namespace)>>

MarshalClusterRoleBinding(rb) ==
    MetaLines(rb.TypeMeta, rb.ObjectMeta)
    \o <<Line("roleRef.apiGroup", <<>>, <<rb.RoleRef.APIGroup>>),
         Line("roleRef.kind", <<>>, <<rb.RoleRef.Kind>>),
         Line("roleRef.name", <<>>, rb.RoleRef.Name)>>
    \o Flatten([i \in 1..Len(rb.Subjects) |-> SubjectLines(i, rb.Subjects[i])])

(***************************************************************************)
(* The two manifest builders                                               *)
(***************************************************************************)
ClusterRole(rs, o) ==
    [TypeMeta |-> [Kind |-> "ClusterRole", APIVersion |-> "rbac.authorization.k8s.io/v1"],
     ObjectMeta |-> [Name |-> o.Name \o <<"-role">>, Labels |-> o.Labels],
     Rules |-> rs]

getClusterRoleManifest(rs, o) == MarshalClusterRole(ClusterRole(rs, o))

\* Variant: the roleRef is formatted with the binding's own suffix.
ClusterRoleBindingDrifted(o) ==
    [TypeMeta |-> [APIVersion |-> "rbac.authorization.k8s.io/v1",
                   Kind |-> "ClusterRoleBinding"],
     ObjectMeta |-> [Name |-> o.Name \o <<"-rolebinding">>, Labels |-> o.Labels],
     Subjects |-> <<[Name |-> "default",
                     Namespace |-> o.Name \o <<"-system">>,
                     Kind |-> "ServiceAccount"]>>,
     RoleRef |-> [Name |-> o.Name \o <<"-rolebinding">>,
                  Kind |-> "ClusterRole",
                  APIGroup |-> "rbac.authorization.k8s.io"]]

ClusterRoleBinding(o) ==
    [TypeMeta |-> [APIVersion |-> "rbac.authorization.k8s.io/v1",
                   Kind |-> "ClusterRoleBinding"],
     ObjectMeta |-> [Name |-> o.Name \o <<"-rolebinding">>, Labels |-> o.Labels],
     Subjects |-> <<[Name |-> "default",
                     Namespace |-> o.Name \o <<"-system">>,
                     Kind |-> "ServiceAccount"]>>,
     RoleRef |-> [Name |-> o.Name \o <<"-role">>,
                  Kind |-> "ClusterRole",
                  APIGroup |-> "rbac.authorization.k8s.io"]]

getClusterRoleBindingManifest(o) == MarshalClusterRoleBinding(ClusterRoleBinding(o))

(***************************************************************************)
(* ManifestOptions.Validate: the error, Nil when both directories exist    *)
(***************************************************************************)
\* Variant: the output directory is checked before the input directory.
ValidateOutputFirst(o) ==
    IF Stat(o.OutputDir) # Nil
    THEN <<"invalid output directory", o.OutputDir>> \o Stat(o.OutputDir)
    ELSE IF Stat(o.InputDir) # Nil
         THEN <<"invalid input directory", o.InputDir>> \o Stat(o.InputDir)
         ELSE Nil

Validate(o) ==
    IF Stat(o.InputDir) # Nil
    THEN <<"invalid input directory", o.InputDir>> \o Stat(o.InputDir)
    ELSE IF Stat(o.OutputDir) # Nil
         THEN <<"invalid output directory", o.OutputDir>> \o Stat(o.OutputDir)
         ELSE Nil

(***************************************************************************)
(* The Rule Source: a scan error, or the rules in scan order               *)
(***************************************************************************)
ParseDir(dir) ==
    {[err |-> <<"scan error", dir>>, rules |-> <<>>]}
    \cup {[err |-> Nil, rules |-> rs] : rs \in RuleSeqs}

(***************************************************************************)
(* ioutil.WriteFile: creates the file or truncates it, then writes data.   *)
(* A failed call leaves the file as it was (the open failed) or created    *)
(* and empty (the write failed after the truncation).                      *)
(***************************************************************************)
\* Variant: the file is opened for appending instead of being truncated.
WriteFileAppending(files, path, data) ==
    [files EXCEPT ![path] = [exists |-> TRUE, data |-> files[path].data \o data]]

\* Variant: a file that exists already is left as it is.
WriteFileIfAbsent(files, path, data) ==
    IF files[path].exists THEN files
    ELSE [files EXCEPT ![path] = [exists |-> TRUE, data |-> data]]

WriteFile(files, path, data) ==
    [files EXCEPT ![path] = [exists |-> TRUE, data |-> data]]

Truncated(files, path) ==
    [files EXCEPT ![path] = [exists |-> TRUE, data |-> <<>>]]

(***************************************************************************)
(* State                                                                   *)
(*   serialized     callers run one invocation at a time                   *)
(*   pc             where each invocation stands                           *)
(*   opts .. err    the locals of Generate                                 *)
(*   fs             the files of the output directory                      *)
(*   exitStatus, stdout   what the driver reports                          *)
(*   fsAtStart      the files an invocation found when it started          *)
(*   calls          the calls an invocation has made, each with its result *)
(*   touched        the paths an invocation's writes have reached          *)
(*   lastWriter     the running invocation whose write a file holds        *)
(***************************************************************************)
Call(fn, ok) == [fn |-> fn, ok |-> ok]

InitCommon ==
    /\ pc = [p \in Procs |-> "idle"]
    /\ opts = [p \in Procs |-> DefaultOptions]
    /\ rules = [p \in Procs |-> <<>>]
    /\ roleManifest = [p \in Procs |-> <<>>]
    /\ roleBindingManifest = [p \in Procs |-> <<>>]
    /\ err = [p \in Procs |-> Nil]
    /\ fs = [x \in Paths |-> NoFile]
    /\ exitStatus = [p \in Procs |-> -1]
    /\ stdout = [p \in Procs |-> <<>>]
    /\ fsAtStart = [p \in Procs |-> [x \in Paths |-> NoFile]]
    /\ calls = [p \in Procs |-> <<>>]
    /\ touched = [p \in Procs |-> {}]
    /\ lastWriter = [x \in Paths |-> 0]

Init == serialized = TRUE /\ InitCommon

InitConcurrent == serialized = FALSE /\ InitCommon

\* Generate returns e.
Return(p, e) ==
    /\ err' = [err EXCEPT ![p] = e]
    /\ pc' = [pc EXCEPT ![p] = "return"]

\* main: the flags are parsed into o and the command calls Generate(o).
Main(p) ==
    /\ pc[p] = "idle"
    /\ serialized => \A q \in Procs : q < p => pc[q] = "exited"
    /\ \E o \in (IF serialized THEN ManifestOptions ELSE ConcurrentOptions) :
          opts' = [opts EXCEPT ![p] = o]
    /\ pc' = [pc EXCEPT ![p] = "Validate"]
    /\ fsAtStart' = [fsAtStart EXCEPT ![p] = fs]
    /\ UNCHANGED <<serialized, rules, roleManifest, roleBindingManifest, err, fs,
                   exitStatus, stdout, calls, touched, lastWriter>>

\* Generate, lines 52-54
ValidateStep(p) ==
    /\ pc[p] = "Validate"
    /\ LET e == Validate(opts[p])
       IN  /\ calls' = [calls EXCEPT ![p] = Append(@, Call("Validate", e = Nil))]
           /\ IF e # Nil
              THEN Return(p, e)
              ELSE /\ pc' = [pc EXCEPT ![p] = "ParseDir"]
                   /\ UNCHANGED err
    /\ UNCHANGED <<serialized, opts, rules, roleManifest, roleBindingManifest, fs,
                   exitStatus, stdout, fsAtStart, touched, lastWriter>>

\* Variant: no early return on an empty rule sequence.
ParseDirStepWithoutEmptyCheck(p) ==
    /\ pc[p] = "ParseDir"
    /\ \E res \in ParseDir(opts[p].InputDir) :
          /\ serialized \/ res.rules \in ConcurrentRuleSeqs
          /\ calls' = [calls EXCEPT ![p] = Append(@, Call("ParseDir", res.err = Nil))]
          /\ IF res.err # Nil
             THEN /\ Return(p, <<"failed to parse the input dir">> \o res.err)
                  /\ UNCHANGED rules
             ELSE /\ rules' = [rules EXCEPT ![p] = res.rules]
                  /\ pc' = [pc EXCEPT ![p] = "getClusterRoleManifest"]
                  /\ UNCHANGED err
    /\ UNCHANGED <<serialized, opts, roleManifest, roleBindingManifest, fs,
                   exitStatus, stdout, fsAtStart, touched, lastWriter>>

\* Generate, lines 56-62
ParseDirStep(p) ==
    /\ pc[p] = "ParseDir"
    /\ \E res \in ParseDir(opts[p].InputDir) :
          /\ serialized \/ res.rules \in ConcurrentRuleSeqs
          /\ calls' = [calls EXCEPT ![p] = Append(@, Call("ParseDir", res.err = Nil))]
          /\ IF res.err # Nil
             THEN /\ Return(p, <<"failed to parse the input dir">> \o res.err)
                  /\ UNCHANGED rules
             ELSE /\ rules' = [rules EXCEPT ![p] = res.rules]
                  /\ IF Len(res.rules) = 0
                     THEN Return(p, Nil)
                     ELSE /\ pc' = [pc EXCEPT ![p] = "getClusterRoleManifest"]
                          /\ UNCHANGED err
    /\ UNCHANGED <<serialized, opts, roleManifest, roleBindingManifest, fs,
                   exitStatus, stdout, fsAtStart, touched, lastWriter>>

\* Variant: the role file is written as soon as the role manifest is rendered.
GetClusterRoleManifestStepWritingEarly(p) ==
    /\ pc[p] = "getClusterRoleManifest"
    /\ \E ok \in BOOLEAN :
          /\ calls' = [calls EXCEPT ![p] = Append(@, Call("getClusterRoleManifest", ok))]
          /\ IF ok
             THEN /\ roleManifest' =
                       [roleManifest EXCEPT ![p] = getClusterRoleManifest(rules[p], opts[p])]
                  /\ fs' = WriteFile(fs, Join(opts[p].OutputDir, RoleFile),
                                     getClusterRoleManifest(rules[p], opts[p]))
                  /\ touched' = [touched EXCEPT
                                   ![p] = @ \cup {Join(opts[p].OutputDir, RoleFile)}]
                  /\ lastWriter' = [lastWriter EXCEPT
                                      ![Join(opts[p].OutputDir, RoleFile)] = p]
                  /\ pc' = [pc EXCEPT ![p] = "getClusterRoleBindingManifest"]
                  /\ UNCHANGED err
             ELSE /\ Return(p, <<"failed to generate role manifest", "marshal error">>)
                  /\ UNCHANGED <<roleManifest, fs, touched, lastWriter>>
    /\ UNCHANGED <<serialized, opts, rules, roleBindingManifest,
                   exitStatus, stdout, fsAtStart>>

\* Generate, lines 63-66
GetClusterRoleManifestStep(p) ==
    /\ pc[p] = "getClusterRoleManifest"
    /\ \E ok \in BOOLEAN :
          /\ calls' = [calls EXCEPT ![p] = Append(@, Call("getClusterRoleManifest", ok))]
          /\ IF ok
             THEN /\ roleManifest' =
                       [roleManifest EXCEPT ![p] = getClusterRoleManifest(rules[p], opts[p])]
                  /\ pc' = [pc EXCEPT ![p] = "getClusterRoleBindingManifest"]
                  /\ UNCHANGED err
             ELSE /\ Return(p, <<"failed to generate role manifest", "marshal error">>)
                  /\ UNCHANGED roleManifest
    /\ UNCHANGED <<serialized, opts, rules, roleBindingManifest, fs,
                   exitStatus, stdout, fsAtStart, touched, lastWriter>>

\* Generate, lines 68-71
GetClusterRoleBindingManifestStep(p) ==
    /\ pc[p] = "getClusterRoleBindingManifest"
    /\ \E ok \in BOOLEAN :
          /\ calls' = [calls EXCEPT
                         ![p] = Append(@, Call("getClusterRoleBindingManifest", ok))]
          /\ IF ok
             THEN /\ roleBindingManifest' =
                       [roleBindingManifest EXCEPT
                          ![p] = getClusterRoleBindingManifest(opts[p])]
                  /\ pc' = [pc EXCEPT ![p] = "WriteRole"]
                  /\ UNCHANGED err
             ELSE /\ Return(p, <<"failed to generate role binding manifests",
                                 "marshal error">>)
                  /\ UNCHANGED roleBindingManifest
    /\ UNCHANGED <<serialized, opts, rules, roleManifest, fs,
                   exitStatus, stdout, fsAtStart, touched, lastWriter>>

\* One call of ioutil.WriteFile(path, data, 0666) by p, and what it leaves:
\* ok is whether the call returned nil.
Write(p, path, data, fn, ok) ==
    /\ calls' = [calls EXCEPT ![p] = Append(@, Call(fn, ok))]
    /\ IF ok
       THEN /\ fs' = WriteFile(fs, path, data)
            /\ touched' = [touched EXCEPT ![p] = @ \cup {path}]
            /\ lastWriter' = [lastWriter EXCEPT ![path] = p]
       ELSE \/ UNCHANGED <<fs, touched, lastWriter>>
            \/ /\ fs' = Truncated(fs, path)
               /\ touched' = [touched EXCEPT ![p] = @ \cup {path}]
               /\ lastWriter' = [lastWriter EXCEPT ![path] = 0]

\* Generate, lines 73-76
WriteRoleStep(p) ==
    /\ pc[p] = "WriteRole"
    /\ \E ok \in BOOLEAN :
          /\ Write(p, Join(opts[p].OutputDir, RoleFile), roleManifest[p], "WriteRole", ok)
          /\ IF ok
             THEN /\ pc' = [pc EXCEPT ![p] = "WriteRoleBinding"]
                  /\ UNCHANGED err
             ELSE Return(p, <<"failed to write role manifest YAML file", "write error">>)
    /\ UNCHANGED <<serialized, opts, rules, roleManifest, roleBindingManifest,
                   exitStatus, stdout, fsAtStart>>

\* Generate, lines 78-82
WriteRoleBindingStep(p) ==
    /\ pc[p] = "WriteRoleBinding"
    /\ \E ok \in BOOLEAN :
          /\ Write(p, Join(opts[p].OutputDir, RoleBindingFile), roleBindingManifest[p],
                   "WriteRoleBinding", ok)
          /\ IF ok
             THEN Return(p, Nil)
             ELSE Return(p, <<"failed to write role manifest YAML file", "write error">>)
    /\ UNCHANGED <<serialized, opts, rules, roleManifest, roleBindingManifest,
                   exitStatus, stdout, fsAtStart>>

\* main, lines 38-41: log.Fatal on an error, the success message otherwise.
Exit(p) ==
    /\ pc[p] = "return"
    /\ pc' = [pc EXCEPT ![p] = "exited"]
    /\ IF err[p] # Nil
       THEN /\ exitStatus' = [exitStatus EXCEPT ![p] = 1]
            /\ UNCHANGED stdout
       ELSE /\ exitStatus' = [exitStatus EXCEPT ![p] = 0]
            /\ stdout' = [stdout EXCEPT
                            ![p] = <<"RBAC manifests generated under",
                                     opts[p].OutputDir, "directory">>]
    /\ UNCHANGED <<serialized, opts, rules, roleManifest, roleBindingManifest, err, fs,
                   fsAtStart, calls, touched, lastWriter>>

Next ==
    \E p \in Procs :
        \/ Main(p)
        \/ ValidateStep(p)
        \/ ParseDirStep(p)
        \/ GetClusterRoleManifestStep(p)
        \/ GetClusterRoleBindingManifestStep(p)
        \/ WriteRoleStep(p)
        \/ WriteRoleBindingStep(p)
        \/ Exit(p)

Spec == Init /\ [][Next]_vars

SpecConcurrent == InitConcurrent /\ [][Next]_vars

(***************************************************************************)
(* Reading the state                                                       *)
(***************************************************************************)
Called(p, fn) == \E i \in 1..Len(calls[p]) : calls[p][i].fn = fn
Succeeded(p, fn) == \E i \in 1..Len(calls[p]) : calls[p][i] = Call(fn, TRUE)
Failed(p, fn) == \E i \in 1..Len(calls[p]) : calls[p][i] = Call(fn, FALSE)

Upstream == {"Validate", "ParseDir", "getClusterRoleManifest",
             "getClusterRoleBindingManifest"}
Writes == {"WriteRole", "WriteRoleBinding"}

Returned(p) == pc[p] \in {"return", "exited"}

\* No invocation after p has started: fs is as p left it.
Latest(p) == serialized /\ \A q \in Procs : q > p => pc[q] = "idle"

BothBuilt(p) ==
    Succeeded(p, "getClusterRoleManifest") /\ Succeeded(p, "getClusterRoleBindingManifest")

RolePath == Join("./config", RoleFile)
RoleBindingPath == Join("./config", RoleBindingFile)

SuccessMessage(p) == <<"RBAC manifests generated under", opts[p].OutputDir, "directory">>

\* The value of a scalar of a rendered document.
Field(doc, key, idx) ==
    LET i == CHOOSE i \in 1..Len(doc) : doc[i].key = key /\ doc[i].idx = idx
    IN  doc[i].val

\* The list under `key` of the i-th rule of a rendered role.
Items(doc, key, i) ==
    LET ls == SelectSeq(doc, LAMBDA l : l.key = key /\ Len(l.idx) = 2 /\ l.idx[1] = i)
    IN  [j \in 1..Len(ls) |-> ls[j].val[1]]

RuleKeys == {"rules.apiGroups", "rules.nonResourceURLs", "rules.resourceNames",
             "rules.resources", "rules.verbs"}

\* The rules a rendered role carries, in document order.
RenderedRules(doc) ==
    LET n == Cardinality({doc[i].idx[1] : i \in {j \in 1..Len(doc) : doc[j].key \in RuleKeys}})
    IN  [i \in 1..n |->
            [APIGroups |-> Items(doc, "rules.apiGroups", i),
             Resources |-> Items(doc, "rules.resources", i),
             ResourceNames |-> Items(doc, "rules.resourceNames", i),
             NonResourceURLs |-> Items(doc, "rules.nonResourceURLs", i),
             Verbs |-> Items(doc, "rules.verbs", i)]]

Range(seq) == {seq[i] : i \in 1..Len(seq)}

RuleKey(r) == <<r.APIGroups, r.Resources, r.ResourceNames, r.NonResourceURLs>>

Count(seq, x) == Cardinality({i \in 1..Len(seq) : seq[i] = x})

IsPermutation(a, b) ==
    Len(a) = Len(b) /\ \A x \in Range(a) \cup Range(b) : Count(a, x) = Count(b, x)

(***************************************************************************)
(* C1: when a step before the writes fails (validation, the scan, either   *)
(* builder), the invocation writes no file and Generate returns an error;  *)
(* a write happens only after all four steps succeeded.                    *)
(***************************************************************************)
NoWriteAfterUpstreamFailure ==
    \A p \in Procs :
        /\ (touched[p] # {} \/ \E w \in Writes : Called(p, w))
              => \A f \in Upstream : Succeeded(p, f)
        /\ (\E f \in Upstream : Failed(p, f))
              => /\ Returned(p)
                 /\ err[p] # Nil
                 /\ touched[p] = {}
                 /\ \A w \in Writes : ~Called(p, w)
                 /\ pc[p] = "exited" => exitStatus[p] = 1
                 /\ Latest(p) => fs = fsAtStart[p]

\* The binding could not be rendered while an earlier invocation's role file exists.
BindingFailureLeavesFiles ==
    /\ serialized
    /\ pc[2] = "exited"
    /\ Failed(2, "getClusterRoleBindingManifest")
    /\ fs[RolePath].exists

(***************************************************************************)
(* C2: a missing input or output directory is reported by Validate before  *)
(* ParseDir is called, no file is written, and the input directory is      *)
(* checked first: when both are missing the error names the input one.     *)
(***************************************************************************)
MissingDirectoryRejected ==
    \A p \in Procs :
        (pc[p] \notin {"idle", "Validate"}
           /\ (Stat(opts[p].InputDir) # Nil \/ Stat(opts[p].OutputDir) # Nil))
        => /\ Returned(p)
           /\ calls[p] = <<Call("Validate", FALSE)>>
           /\ touched[p] = {}
           /\ Latest(p) => fs = fsAtStart[p]
           /\ Len(err[p]) >= 2
           /\ IF Stat(opts[p].InputDir) # Nil
              THEN err[p][1] = "invalid input directory" /\ err[p][2] = opts[p].InputDir
              ELSE err[p][1] = "invalid output directory" /\ err[p][2] = opts[p].OutputDir

BothDirectoriesMissing ==
    /\ pc[1] = "exited"
    /\ Stat(opts[1].InputDir) # Nil
    /\ Stat(opts[1].OutputDir) # Nil
    /\ err[1][2] = "./nodir"

(***************************************************************************)
(* C3: an empty identity name is rejected by the options validation,       *)
(* before the scan and before either builder is called.                    *)
(***************************************************************************)
EmptyNameRejected ==
    \A p \in Procs :
        (opts[p].Name = <<>> /\ pc[p] \notin {"idle", "Validate"})
        => /\ Returned(p)
           /\ err[p] # Nil
           /\ calls[p] = <<Call("Validate", FALSE)>>

(***************************************************************************)
(* C4: when validation succeeds and the Rule Source returns no rules,      *)
(* Generate builds nothing, writes nothing and returns nil; the driver     *)
(* then prints the success message and exits normally.                     *)
(***************************************************************************)
EmptyRulesIsNoOp ==
    \A p \in Procs :
        (Succeeded(p, "Validate") /\ Succeeded(p, "ParseDir") /\ rules[p] = <<>>)
        => /\ Returned(p)
           /\ err[p] = Nil
           /\ calls[p] = <<Call("Validate", TRUE), Call("ParseDir", TRUE)>>
           /\ roleManifest[p] = <<>>
           /\ roleBindingManifest[p] = <<>>
           /\ touched[p] = {}
           /\ Latest(p) => fs = fsAtStart[p]
           /\ pc[p] = "exited" => exitStatus[p] = 0 /\ stdout[p] = SuccessMessage(p)

EmptyRulesAfterAGeneration ==
    /\ serialized
    /\ pc[2] = "exited"
    /\ Succeeded(2, "ParseDir")
    /\ rules[2] = <<>>
    /\ fs[RolePath].exists
    /\ fs[RoleBindingPath].exists

(***************************************************************************)
(* C5: for a non-empty name N, once both manifests are built the role is   *)
(* named N-role, the binding N-rolebinding, the binding's roleRef names    *)
(* the role of the same invocation, the subject is the ServiceAccount      *)
(* "default" in namespace N-system, and the roleRef kind is ClusterRole.   *)
(***************************************************************************)
NamingConsistency ==
    \A p \in Procs :
        (opts[p].Name # <<>> /\ BothBuilt(p))
        => LET N == opts[p].Name
               role == roleManifest[p]
               binding == roleBindingManifest[p]
           IN  /\ Field(role, "metadata.name", <<>>) = N \o <<"-role">>
               /\ Field(binding, "metadata.name", <<>>) = N \o <<"-rolebinding">>
               /\ Field(binding, "roleRef.name", <<>>) = Field(role, "metadata.name", <<>>)
               /\ Field(binding, "roleRef.kind", <<>>) = <<"ClusterRole">>
               /\ Field(binding, "subjects.namespace", <<1>>) = N \o <<"-system">>
               /\ Field(binding, "subjects.kind", <<1>>) = <<"ServiceAccount">>
               /\ Field(binding, "subjects.name", <<1>>) = <<"default">>

BothBuiltForOther ==
    \E p \in Procs : BothBuilt(p) /\ opts[p].Name = <<"other">>

(***************************************************************************)
(* C6: the generated role carries exactly one rule per distinct key        *)
(* {apiGroups, resources, resourceNames, nonResourceURLs}, whose verbs are *)
(* the union of the verbs of the input rules with that key, without        *)
(* duplicate verbs.                                                        *)
(***************************************************************************)
MergeCorrectness ==
    \A p \in Procs :
        Succeeded(p, "getClusterRoleManifest")
        => LET out == RenderedRules(roleManifest[p])
           IN  \A k \in {RuleKey(r) : r \in Range(rules[p])} :
                  /\ Cardinality({i \in 1..Len(out) : RuleKey(out[i]) = k}) = 1
                  /\ \A i \in 1..Len(out) :
                        RuleKey(out[i]) = k
                        => /\ Range(out[i].Verbs)
                                = UNION {Range(r.Verbs) :
                                            r \in {x \in Range(rules[p]) : RuleKey(x) = k}}
                           /\ \A v \in Range(out[i].Verbs) : Count(out[i].Verbs, v) = 1

(***************************************************************************)
(* What Generate does instead: the role carries the rules of the Rule      *)
(* Source as they came, one role rule per input rule with that rule's own  *)
(* verbs; rules that share a key are not merged.                           *)
(***************************************************************************)
RulesCarriedVerbatim ==
    \A p \in Procs :
        Succeeded(p, "getClusterRoleManifest")
        => RenderedRules(roleManifest[p]) = rules[p]

TwoRulesOfOneKeyCarried ==
    \E p \in Procs :
        /\ Succeeded(p, "getClusterRoleManifest")
        /\ rules[p] = <<PodsGet, PodsList>>
        /\ Len(RenderedRules(roleManifest[p])) = 2

(***************************************************************************)
(* C7: two rule sequences that are permutations of each other (two scan    *)
(* orders of one source tree) give the same role manifest.                 *)
(***************************************************************************)
OrderDeterminism ==
    (/\ Succeeded(1, "getClusterRoleManifest")
     /\ Succeeded(2, "getClusterRoleManifest")
     /\ opts[1] = opts[2]
     /\ IsPermutation(rules[1], rules[2]))
    => roleManifest[1] = roleManifest[2]

(***************************************************************************)
(* What Generate does instead: the role manifest follows the scan order,   *)
(* so under the same options two rule sequences give the same role         *)
(* manifest exactly when they are the same sequence.                       *)
(***************************************************************************)
RoleFollowsScanOrder ==
    (/\ Succeeded(1, "getClusterRoleManifest")
     /\ Succeeded(2, "getClusterRoleManifest")
     /\ opts[1] = opts[2])
    => (roleManifest[1] = roleManifest[2] <=> rules[1] = rules[2])

PermutedScansDiffer ==
    /\ Succeeded(1, "getClusterRoleManifest")
    /\ Succeeded(2, "getClusterRoleManifest")
    /\ opts[1] = opts[2]
    /\ rules[1] # rules[2]
    /\ IsPermutation(rules[1], rules[2])
    /\ roleManifest[1] # roleManifest[2]

(***************************************************************************)
(* C8: a second successful invocation with the options and the rule        *)
(* sequence of the first leaves the output directory as the first left it  *)
(* (with rules, both files present holding the same bytes), and an         *)
(* invocation never changes its options.                                   *)
(***************************************************************************)
SecondRunChangesNothing ==
    (/\ serialized
     /\ Returned(1) /\ err[1] = Nil
     /\ Returned(2) /\ err[2] = Nil
     /\ opts[1] = opts[2]
     /\ rules[1] = rules[2])
    => /\ fs = fsAtStart[2]
       /\ rules[2] # <<>>
             => /\ fs[RolePath] = [exists |-> TRUE, data |-> roleManifest[1]]
                /\ fs[RoleBindingPath] = [exists |-> TRUE, data |-> roleBindingManifest[1]]

OptionsNeverModified ==
    \A p \in Procs : pc[p] # "idle" => opts'[p] = opts[p]

\* C8, both parts: the rerun changes nothing and the options stay as given.
Idempotence == [](SecondRunChangesNothing) /\ [][OptionsNeverModified]_vars

IdenticalRerunWithRules ==
    /\ serialized
    /\ pc[1] = "exited" /\ err[1] = Nil
    /\ pc[2] = "exited" /\ err[2] = Nil
    /\ opts[1] = opts[2]
    /\ rules[1] = rules[2]
    /\ Len(rules[2]) = 2
    /\ touched[2] = Paths

(***************************************************************************)
(* C9 as claimed: after successful invocations on one output directory,    *)
(* every file there comes from the most recent one.                        *)
(***************************************************************************)
OnlyMostRecentRunOnDisk ==
    (/\ serialized
     /\ Returned(1) /\ err[1] = Nil
     /\ Returned(2) /\ err[2] = Nil)
    => \A x \in Paths : fs[x].exists => lastWriter[x] = 2

(***************************************************************************)
(* C9 as amended: a successful invocation that found at least one rule     *)
(* leaves both files holding exactly its own manifests, whatever an        *)
(* earlier invocation wrote; a successful invocation that found no rule    *)
(* writes nothing, so the files of an earlier invocation stay.             *)
(***************************************************************************)
SuccessfulRunWithRulesOverwrites ==
    \A p \in Procs :
        (Latest(p) /\ Returned(p) /\ err[p] = Nil)
        => IF rules[p] # <<>>
           THEN /\ fs[RolePath] = [exists |-> TRUE, data |-> roleManifest[p]]
                /\ fs[RoleBindingPath] = [exists |-> TRUE, data |-> roleBindingManifest[p]]
           ELSE fs = fsAtStart[p]

RerunUnderAnotherName ==
    /\ serialized
    /\ pc[1] = "exited" /\ err[1] = Nil /\ rules[1] # <<>>
    /\ pc[2] = "exited" /\ err[2] = Nil /\ rules[2] # <<>>
    /\ opts[1].Name # opts[2].Name
    /\ roleManifest[1] # roleManifest[2]

====
